---- MODULE Spec2Model ----
(***************************************************************************)
(* Session lifecycle and file-channel protocol of SimpleClineService       *)
(* (backend/app/services/simple_cline_service.py).                         *)
(*                                                                         *)
(* The service runs on one asyncio event loop: a coroutine runs atomically *)
(* from one suspension point (await asyncio.sleep / await on the           *)
(* subprocess) to the next, so every action below is one such stretch of   *)
(* code.  The external process is the persistent CLI script; its steps are *)
(* interleaved with the service's.  Deadlines are abstracted: once a       *)
(* polling loop has slept at least once, its deadline may have passed.     *)
(***************************************************************************)
EXTENDS Integers, Sequences, FiniteSets, TLC

\* ---------------------------------------------------------------- bounds
MaxSessions == 2        \* session ids (uuid4 values) ever allocated
MaxSeq      == 2        \* messages the external process numbers (messageCounter)
MaxLines    == 2        \* lines the output file accumulates
MaxStops    == 2        \* stop_session calls sleeping in their grace period, per session
MaxCalls    == 3        \* calls of create_session, send_message and stop_session served
MaxHistory  == 5        \* records of the longest history get_session_messages is asked for
MaxOut      == 3        \* lines the review CLI prints

SessionIds == 1..MaxSessions

\* ------------------------------------------------------------- vocabulary
STOP_SESSION == "STOP_SESSION"
Texts   == {"hi", STOP_SESSION}      \* message texts a caller sends
Replies == {"r1", "r2"}              \* texts the agent answers with
ReadyTexts == {"READY", "SESSION_READY"}

\* One line of the output file.  kind "text" is a plain line, kind "json" a
\* line that starts with '{' and parses; key is the field it carries, mid its
\* messageId (0 when the record has none: response_data.get("messageId", 0)).
TextLine(t)       == [kind |-> "text", key |-> "",  mid |-> 0, body |-> t]
JsonLine(k, i, b) == [kind |-> "json", key |-> k,   mid |-> i, body |-> b]
NoLine            == [kind |-> "none", key |-> "",  mid |-> 0, body |-> ""]
\* A line that starts with '{' and does not parse (json.JSONDecodeError).
BadLine           == [kind |-> "bad",  key |-> "",  mid |-> 0, body |-> "{"]

\* A record of session.messages (the uuid and the timestamp are left out;
\* mid is metadata.message_id, 0 for a user record).
UserMessage(m)     == [type |-> "user",  content |-> m, mid |-> 0]

\* What the last step returned to (or raised at) its caller: the call, the
\* session id, the outcome, the value or the exception, and for
\* get_session_messages the limit it was given and the list it returned.
Quiet            == [op |-> "none", sid |-> 0, out |-> "", val |-> "", arg |-> 0, list |-> <<>>]
Ret(o, s, r, v)  == [op |-> o, sid |-> s, out |-> r, val |-> v, arg |-> 0, list |-> <<>>]
RetList(o, s, r, a, l) ==
    [op |-> o, sid |-> s, out |-> r, val |-> "", arg |-> a, list |-> l]

VARIABLES
    nextId,          \* the next fresh session id (uuid.uuid4())
    sessions,        \* SimpleClineService.sessions: the ids held in the registry
    status,          \* session.status of each session object ("none": not allocated)
    messages,        \* session.messages
    lastResponseId,  \* session._last_response_id (getattr default 0)
    files,           \* sessions whose input.txt / output.txt exist
    inputFile,       \* content of input.txt
    outputFile,      \* lines of output.txt
    ext,             \* the external process: phase, messageCounter, message in work,
                     \* and whether terminate() has signalled it
    createPc,        \* where each create_session coroutine stands
    sendPc,          \* where the send_message coroutine of a session stands
    stopping,        \* stop_session coroutines of a session in their grace sleep
    last,            \* result of the last step, as its caller sees it
    calls,           \* number of service calls made so far
    review,          \* the review request (run_coderabbit_cli) and its process
    full             \* the ClineService instance: its id source, registry and sessions

vars == <<nextId, sessions, status, messages, lastResponseId, files, inputFile,
          outputFile, ext, createPc, sendPc, stopping, last, calls, review, full>>

svcVars == <<nextId, sessions, status, messages, lastResponseId, createPc, sendPc, stopping>>

Running(s) == ext[s].phase \in {"boot", "echoed", "loop", "busy"}

\* A call arrives at the service (the model serves MaxCalls of them).
\* The session is inside one of the two polling loops.
Polling(s) == createPc[s] \in {"spawned", "waiting"} \/ sendPc[s] = "sleep"

\* Mutant: the loops sleep with time.sleep(2) and keep the event loop.
SleepHoldsLoop_Blocking(s) == Polling(s)

\* await asyncio.sleep(2), in both loops and in stop_session: between two
\* iterations the coroutine is parked and the event loop is free to run
\* other coroutines.
SleepHoldsLoop(s) == FALSE

\* A call is served when the event loop is free.
Served ==
    /\ \A s \in SessionIds : ~SleepHoldsLoop(s)
    /\ calls < MaxCalls /\ calls' = calls + 1 /\ UNCHANGED <<review, full>>

\* The error an HTTPException carries besides its status: which raise it
\* comes from, and how many characters of stderr its detail holds.
NoDetail == [kind |-> "", stderr |-> 0]

\* No review request has been made.
NoReview ==
    [pc |-> "none", proc |-> "none", signal |-> "", out |-> <<>>, rc |-> 0, err |-> 0,
     status |-> 0, detail |-> NoDetail, comments |-> <<>>]

\* ClineService(): self.sessions = {}; no session object exists yet.
NoFull ==
    [nextId |-> 1, sessions |-> {},
     status |-> [s \in SessionIds |-> "none"],
     messages |-> [s \in SessionIds |-> <<>>]]

\* The session services and their bookkeeping, which a review leaves alone.
cline == <<nextId, sessions, status, messages, lastResponseId, files, inputFile,
           outputFile, ext, createPc, sendPc, stopping, last, calls, full>>

Init ==
    /\ nextId = 1
    /\ sessions = {}
    /\ status = [s \in SessionIds |-> "none"]
    /\ messages = [s \in SessionIds |-> <<>>]
    /\ lastResponseId = [s \in SessionIds |-> 0]
    /\ files = {}
    /\ inputFile = [s \in SessionIds |-> ""]
    /\ outputFile = [s \in SessionIds |-> <<>>]
    /\ ext = [s \in SessionIds |->
                [phase |-> "none", counter |-> 0, cur |-> "", term |-> FALSE]]
    /\ createPc = [s \in SessionIds |-> "none"]
    /\ sendPc = [s \in SessionIds |-> "idle"]
    /\ stopping = [s \in SessionIds |-> 0]
    /\ last = Quiet
    /\ calls = 0
    /\ review = NoReview
    /\ full = NoFull

\* ------------------------------------------------------- create_session
\* tempfile.mkdtemp(prefix=f"cline_session_{session_id}_"): a fresh
\* directory per call, named after the session id; the two files in it.
TempDir(s)    == <<"cline_session", s>>
InputPath(s)  == Append(TempDir(s), "input.txt")
OutputPath(s) == Append(TempDir(s), "output.txt")

\* Mutant: any content of the output file counts as the signal.
HasReadyMarker_NonEmpty(lines) == lines # <<>>

\* "SESSION_READY" in content or "READY" in content
HasReadyMarker(lines) ==
    \E i \in 1..Len(lines) : lines[i].body \in ReadyTexts

\* Mutant: the session is inserted whether or not the handshake succeeded.
Registered_Always(reg, s, ok) == reg \cup {s}

\* The registry after create_session ends: the session is inserted only on
\* the success path, after the handshake returned.
Registered(reg, s, ok) == IF ok THEN reg \cup {s} ELSE reg

\* create_session up to its first suspension: the session object, the two
\* empty files, the spawn of the CLI process.  A spawn that raises goes
\* through the except clause.
CreateSession ==
    /\ Served
    /\ nextId <= MaxSessions
    /\ LET s == nextId IN
        /\ nextId' = nextId + 1
        /\ files' = files \cup {s}
        /\ inputFile' = [inputFile EXCEPT ![s] = ""]
        /\ outputFile' = [outputFile EXCEPT ![s] = <<>>]
        /\ \/ /\ ext' = [ext EXCEPT ![s].phase = "boot"]
              /\ status' = [status EXCEPT ![s] = "initializing"]
              /\ createPc' = [createPc EXCEPT ![s] = "spawned"]
              /\ last' = Ret("create", s, "pending", "")
           \/ /\ ext' = ext
              /\ status' = [status EXCEPT ![s] = "error"]
              /\ createPc' = [createPc EXCEPT ![s] = "failed"]
              /\ last' = Ret("create", s, "error", "OSError")
        /\ sessions' = Registered(sessions, s, FALSE)
        /\ UNCHANGED <<messages, lastResponseId, sendPc, stopping>>

\* One iteration of _wait_for_session_ready_with_logs that reads the output
\* file: the marker ends the handshake, create_session sets 'ready' and
\* inserts the session; otherwise the loop sleeps.
CreatePoll(s) ==
    /\ UNCHANGED <<calls, review, full>>
    /\ createPc[s] \in {"spawned", "waiting"}
    /\ IF s \in files /\ HasReadyMarker(outputFile[s])
       THEN /\ status' = [status EXCEPT ![s] = "ready"]
            /\ sessions' = Registered(sessions, s, TRUE)
            /\ createPc' = [createPc EXCEPT ![s] = "done"]
            /\ last' = Ret("create", s, "ok", "")
       ELSE /\ createPc' = [createPc EXCEPT ![s] = "waiting"]
            /\ last' = Quiet
            /\ UNCHANGED <<status, sessions>>
    /\ UNCHANGED <<nextId, messages, lastResponseId, files, inputFile, outputFile,
                   ext, sendPc, stopping>>

\* An iteration whose open() or read() of the output file raises: the
\* except clause logs a warning and the loop sleeps.
CreateReadFails(s) ==
    /\ UNCHANGED <<calls, review, full>>
    /\ createPc[s] \in {"spawned", "waiting"}
    /\ s \in files
    /\ createPc' = [createPc EXCEPT ![s] = "waiting"]
    /\ last' = Quiet
    /\ UNCHANGED <<nextId, sessions, status, messages, lastResponseId, files, inputFile,
                   outputFile, ext, sendPc, stopping>>

\* The except clause of create_session: status 'error', the exception is
\* raised again, the session is not inserted.
CreateRaise(s, why) ==
    /\ UNCHANGED <<calls, review, full>>
    /\ status' = [status EXCEPT ![s] = "error"]
    /\ sessions' = Registered(sessions, s, FALSE)
    /\ createPc' = [createPc EXCEPT ![s] = "failed"]
    /\ last' = Ret("create", s, "error", why)
    /\ UNCHANGED <<nextId, messages, lastResponseId, files, inputFile, outputFile,
                   ext, sendPc, stopping>>

\* Mutant: the loop has no deadline (while True).
CreateTimeout_NoDeadline(s) ==
    /\ createPc[s] = "waiting"
    /\ last' = Quiet
    /\ UNCHANGED <<calls, review, full, svcVars, files, inputFile, outputFile, ext>>

\* The while condition fails after a sleep: the deadline has passed.
CreateTimeout(s) ==
    /\ createPc[s] = "waiting"
    /\ CreateRaise(s, "TimeoutError")

\* The periodic progress check finds the process has exited: the loop is
\* left with break and the same TimeoutError is raised.
CreateProcessExited(s) ==
    /\ createPc[s] = "waiting"
    /\ ext[s].phase = "exited"
    /\ CreateRaise(s, "TimeoutError")

\* -------------------------------------------------- the external process
\* bash: echo "READY" > "$SESSION_OUTPUT_FILE"
ExtEchoReady(s) ==
    /\ UNCHANGED <<calls, review, full>>
    /\ ext[s].phase = "boot"
    /\ ext' = [ext EXCEPT ![s].phase = "echoed"]
    /\ outputFile' = [outputFile EXCEPT ![s] = <<TextLine("READY")>>]
    /\ last' = Quiet
    /\ UNCHANGED <<svcVars, files, inputFile>>

\* before(): fs.writeFileSync(outputFile, 'SESSION_READY\n')
ExtSessionReady(s) ==
    /\ UNCHANGED <<calls, review, full>>
    /\ ext[s].phase = "echoed"
    /\ ext' = [ext EXCEPT ![s].phase = "loop"]
    /\ outputFile' = [outputFile EXCEPT ![s] = <<TextLine("SESSION_READY")>>]
    /\ last' = Quiet
    /\ UNCHANGED <<svcVars, files, inputFile>>

\* The message loop reads the input file: a message is counted, the file is
\* cleared and the message is handed to the agent.
ExtTakeMessage(s) ==
    /\ UNCHANGED <<calls, review, full>>
    /\ ext[s].phase = "loop"
    /\ s \in files
    /\ inputFile[s] \notin {"", STOP_SESSION}
    /\ ext[s].counter < MaxSeq
    /\ ext' = [ext EXCEPT ![s].phase = "busy", ![s].counter = @ + 1,
                          ![s].cur = inputFile[s]]
    /\ inputFile' = [inputFile EXCEPT ![s] = ""]
    /\ last' = Quiet
    /\ UNCHANGED <<svcVars, files, outputFile>>

\* The message loop reads the sentinel and leaves; the process ends.
ExtStopSentinel(s) ==
    /\ UNCHANGED <<calls, review, full>>
    /\ ext[s].phase = "loop"
    /\ s \in files
    /\ inputFile[s] = STOP_SESSION
    /\ ext' = [ext EXCEPT ![s].phase = "exited"]
    /\ last' = Quiet
    /\ UNCHANGED <<svcVars, files, inputFile, outputFile>>

\* fs.writeFileSync replaces the file's content.
Overwrite(lines, l) == <<l>>

\* The shipped CLI script is described as appending lines to the output file.
Append2(lines, l) == lines \o <<l>>

WriteModes == {"w", "a"}
WriteOut(lines, l, mode) ==
    IF mode = "a" /\ Len(lines) < MaxLines THEN Append2(lines, l) ELSE Overwrite(lines, l)

\* The agent answered: {success, messageId: messageCounter, response, timestamp}
ExtReply(s, r, mode) ==
    /\ UNCHANGED <<calls, review, full>>
    /\ ext[s].phase = "busy"
    /\ ext' = [ext EXCEPT ![s].phase = "loop", ![s].cur = ""]
    /\ outputFile' = [outputFile EXCEPT
            ![s] = WriteOut(@, JsonLine("response", ext[s].counter, r), mode)]
    /\ last' = Quiet
    /\ UNCHANGED <<svcVars, files, inputFile>>

\* The agent threw: {success: false, error, timestamp}, a record without
\* messageId.
ExtError(s, mode) ==
    /\ UNCHANGED <<calls, review, full>>
    /\ ext[s].phase = "busy"
    /\ ext' = [ext EXCEPT ![s].phase = "loop", ![s].cur = ""]
    /\ outputFile' = [outputFile EXCEPT
            ![s] = WriteOut(@, JsonLine("error", 0, "failed"), mode)]
    /\ last' = Quiet
    /\ UNCHANGED <<svcVars, files, inputFile>>

\* The process ends by itself at any time.
ExtExit(s) ==
    /\ UNCHANGED <<calls, review, full>>
    /\ Running(s)
    /\ ext' = [ext EXCEPT ![s].phase = "exited"]
    /\ last' = Quiet
    /\ UNCHANGED <<svcVars, files, inputFile, outputFile>>

\* ---------------------------------------------------------- send_message
\* Mutant: the membership check lets every id through.
Unknown_Never(reg, s) == FALSE

\* if session_id not in self.sessions (send_message, stop_session)
Unknown(reg, s) == s \notin reg

\* Mutants of the readiness check: only one of the two non-ready statuses
\* is refused.
NotReady_OnlyProcessing(st) == st = "processing"
NotReady_OnlyError(st) == st = "error"

\* if session.status != "ready": raise ValueError(... is not ready ...)
NotReady(st) == st # "ready"

\* A line _wait_for_response considers: it starts with '{', parses, and
\* carries a "response" or an "error" field.
IsRecord(l) == l.kind = "json" /\ l.key \in {"response", "error"}

\* Mutant: the comparison admits the id already consumed.
IsNewer_OrEqual(mid, lastId) == mid >= lastId

\* if response_id > last_response_id
IsNewer(mid, lastId) == mid > lastId

\* Mutant: a line that does not parse ends the scan of the snapshot.
RECURSIVE FindFrom_StopAtBad(_, _, _)
FindFrom_StopAtBad(lines, i, lastId) ==
    IF i = 0 \/ lines[i].kind = "bad" THEN NoLine
    ELSE IF IsRecord(lines[i]) /\ IsNewer(lines[i].mid, lastId) THEN lines[i]
    ELSE FindFrom_StopAtBad(lines, i - 1, lastId)

\* for line in reversed(lines): the last line that is a record with a newer
\* messageId, NoLine when there is none.
RECURSIVE FindFrom(_, _, _)
FindFrom(lines, i, lastId) ==
    IF i = 0 THEN NoLine
    ELSE IF IsRecord(lines[i]) /\ IsNewer(lines[i].mid, lastId) THEN lines[i]
    ELSE FindFrom(lines, i - 1, lastId)

\* One read of the output file by _wait_for_response.
FindResponse(s) ==
    IF s \in files THEN FindFrom(outputFile[s], Len(outputFile[s]), lastResponseId[s])
    ELSE NoLine

\* Mutant: the content is taken from the wrong field.
AgentMessage_WrongField(r) ==
    [type |-> "agent", content |-> IF r.key = "error" THEN r.body ELSE "", mid |-> r.mid]

\* "content": response.get("response", ""), "metadata": {"message_id": ...}
AgentMessage(r) ==
    [type |-> "agent", content |-> IF r.key = "response" THEN r.body ELSE "", mid |-> r.mid]

\* Mutant: the last consumed id is kept on the service, not on the session.
SendReturn_SharedId(s, msgs, r) ==
    /\ lastResponseId' = [x \in SessionIds |-> r.mid]
    /\ messages' = [messages EXCEPT ![s] = Append(msgs, AgentMessage(r))]
    /\ status' = [status EXCEPT ![s] = "ready"]
    /\ sendPc' = [sendPc EXCEPT ![s] = "idle"]
    /\ last' = Ret("send", s, "ok", AgentMessage(r).content)

\* Mutant: the agent record takes the place of the last record.
SendReturn_ReplacesLast(s, msgs, r) ==
    /\ lastResponseId' = [lastResponseId EXCEPT ![s] = r.mid]
    /\ messages' = [messages EXCEPT
           ![s] = Append(SubSeq(msgs, 1, Len(msgs) - 1), AgentMessage(r))]
    /\ status' = [status EXCEPT ![s] = "ready"]
    /\ sendPc' = [sendPc EXCEPT ![s] = "idle"]
    /\ last' = Ret("send", s, "ok", AgentMessage(r).content)

\* The tail of send_message once _wait_for_response returned r: the id is
\* stored, the agent record is appended, the status is 'ready' again.
SendReturn(s, msgs, r) ==
    /\ lastResponseId' = [lastResponseId EXCEPT ![s] = r.mid]
    /\ messages' = [messages EXCEPT ![s] = Append(msgs, AgentMessage(r))]
    /\ status' = [status EXCEPT ![s] = "ready"]
    /\ sendPc' = [sendPc EXCEPT ![s] = "idle"]
    /\ last' = Ret("send", s, "ok", AgentMessage(r).content)

\* Mutant: the input file is opened for appending, so that what was in it
\* stays in front of the message.
WriteInput_KeepsOld(old, m) == IF old = "" THEN m ELSE old

\* with open(session.input_file, 'w') as f: f.write(message): the file is
\* truncated and then holds the message text and nothing else.
WriteInput(old, m) == m

\* send_message from its call to its first suspension: the two checks, then
\* status 'processing', the user record, the write of the input file and
\* the first read of the output file.
SendMessage(s, m) ==
    /\ Served
    /\ IF Unknown(sessions, s)
       THEN /\ last' = Ret("send", s, "not_found", "")
            /\ UNCHANGED <<svcVars, files, inputFile, outputFile, ext>>
       ELSE IF NotReady(status[s])
       THEN /\ last' = Ret("send", s, "not_ready", "")
            /\ UNCHANGED <<svcVars, files, inputFile, outputFile, ext>>
       ELSE /\ inputFile' = [inputFile EXCEPT ![s] = WriteInput(@, m)]
            /\ files' = files \cup {s}
            /\ LET msgs == Append(messages[s], UserMessage(m))
                   r    == FindResponse(s)
               IN IF r # NoLine
                  THEN SendReturn(s, msgs, r)
                  ELSE /\ messages' = [messages EXCEPT ![s] = msgs]
                       /\ status' = [status EXCEPT ![s] = "processing"]
                       /\ sendPc' = [sendPc EXCEPT ![s] = "sleep"]
                       /\ last' = Ret("send", s, "pending", m)
                       /\ UNCHANGED lastResponseId
            /\ UNCHANGED <<nextId, sessions, createPc, stopping, outputFile, ext>>

\* A later iteration of _wait_for_response, after asyncio.sleep(2).
SendPoll(s) ==
    /\ UNCHANGED <<calls, review, full>>
    /\ sendPc[s] = "sleep"
    /\ LET r == FindResponse(s)
       IN IF r # NoLine
          THEN SendReturn(s, messages[s], r)
          ELSE /\ last' = Quiet
               /\ UNCHANGED <<messages, status, sendPc, lastResponseId>>
    /\ UNCHANGED <<nextId, sessions, createPc, stopping, files, inputFile, outputFile, ext>>

\* An iteration of _wait_for_response whose open() or read() raises: the
\* outer except clause logs a warning and the loop sleeps.
SendReadFails(s) ==
    /\ UNCHANGED <<calls, review, full>>
    /\ sendPc[s] = "sleep"
    /\ s \in files
    /\ last' = Quiet
    /\ UNCHANGED <<svcVars, files, inputFile, outputFile, ext>>

\* An iteration of _wait_for_response that finds nothing and sleeps again.
KeepsPolling(s) == SendPoll(s) /\ sendPc'[s] = "sleep"

\* Mutant: the except clause puts the session back to 'ready'.
SendTimeout_BackToReady(s) ==
    /\ UNCHANGED <<calls, review, full>>
    /\ sendPc[s] = "sleep"
    /\ status' = [status EXCEPT ![s] = "ready"]
    /\ sendPc' = [sendPc EXCEPT ![s] = "idle"]
    /\ last' = Ret("send", s, "error", "TimeoutError")
    /\ UNCHANGED <<nextId, sessions, messages, lastResponseId, createPc, stopping,
                   files, inputFile, outputFile, ext>>

\* Mutant: the except clause takes the unanswered user record back.
SendTimeout_DropsUser(s) ==
    /\ UNCHANGED <<calls, review, full>>
    /\ sendPc[s] = "sleep"
    /\ status' = [status EXCEPT ![s] = "error"]
    /\ messages' = [messages EXCEPT ![s] = SubSeq(@, 1, Len(@) - 1)]
    /\ sendPc' = [sendPc EXCEPT ![s] = "idle"]
    /\ last' = Ret("send", s, "error", "TimeoutError")
    /\ UNCHANGED <<nextId, sessions, lastResponseId, createPc, stopping,
                   files, inputFile, outputFile, ext>>

\* The deadline has passed: TimeoutError, and the except clause of
\* send_message sets 'error' and raises again.
SendTimeout(s) ==
    /\ UNCHANGED <<calls, review, full>>
    /\ sendPc[s] = "sleep"
    /\ status' = [status EXCEPT ![s] = "error"]
    /\ sendPc' = [sendPc EXCEPT ![s] = "idle"]
    /\ last' = Ret("send", s, "error", "TimeoutError")
    /\ UNCHANGED <<nextId, sessions, messages, lastResponseId, createPc, stopping,
                   files, inputFile, outputFile, ext>>

\* ---------------------------------------------------------- stop_session
\* stop_session from its call to its first suspension: the membership check,
\* the sentinel, terminate().  terminate() sends SIGTERM to a running
\* process, which ends at some later step.  On a process that has exited
\* terminate() does nothing, or, once the transport is closed, raises
\* ProcessLookupError, and the except clause returns False.  Otherwise the
\* coroutine sleeps for the grace period.
StopSession(s) ==
    /\ Served
    /\ IF Unknown(sessions, s)
       THEN /\ last' = Ret("stop", s, "false", "")
            /\ UNCHANGED <<svcVars, files, inputFile, outputFile, ext>>
       ELSE /\ stopping[s] < MaxStops
            /\ inputFile' = [inputFile EXCEPT
                   ![s] = IF s \in files THEN STOP_SESSION ELSE @]
            /\ \/ /\ Running(s)
                  /\ ext' = [ext EXCEPT ![s].term = TRUE]
                  /\ stopping' = [stopping EXCEPT ![s] = @ + 1]
                  /\ last' = Ret("stop", s, "pending", "")
               \/ /\ ~Running(s)
                  /\ stopping' = [stopping EXCEPT ![s] = @ + 1]
                  /\ last' = Ret("stop", s, "pending", "")
                  /\ ext' = ext
               \/ /\ ~Running(s)
                  /\ last' = Ret("stop", s, "false", "ProcessLookupError")
                  /\ UNCHANGED <<stopping, ext>>
            /\ UNCHANGED <<nextId, sessions, status, messages, lastResponseId, createPc,
                           sendPc, files, outputFile>>

\* Mutant: the call after the grace period succeeds and the status is set,
\* but the session is left in the registry.
StopAfterGrace_NoDelete(s) ==
    /\ UNCHANGED <<calls, review, full>>
    /\ stopping[s] > 0
    /\ stopping' = [stopping EXCEPT ![s] = @ - 1]
    /\ status' = [status EXCEPT ![s] = "stopped"]
    /\ last' = Ret("stop", s, "true", "")
    /\ UNCHANGED <<nextId, sessions, messages, lastResponseId, createPc,
                   sendPc, files, inputFile, outputFile, ext>>

\* After the grace period: session.cli_process.poll().  cli_process is the
\* asyncio.subprocess.Process returned by create_subprocess_exec, which has
\* no poll attribute (only returncode, wait, communicate, send_signal,
\* terminate, kill): AttributeError, caught by the except clause, which logs
\* and returns False.  The clean-up below it (unlink, status 'stopped',
\* del self.sessions[...]) is not reached.
StopAfterGrace(s) ==
    /\ UNCHANGED <<calls, review, full>>
    /\ stopping[s] > 0
    /\ stopping' = [stopping EXCEPT ![s] = @ - 1]
    /\ last' = Ret("stop", s, "false", "AttributeError")
    /\ UNCHANGED <<nextId, sessions, status, messages, lastResponseId, createPc,
                   sendPc, files, inputFile, outputFile, ext>>

\* ------------------------------------------------------------- lookups
\* get_session: self.sessions.get(session_id); 0 stands for None.
GetSession(s) == IF s \in sessions THEN s ELSE 0

\* list_sessions: list(self.sessions.values())
ListSessions == sessions

\* The largest limit, in absolute value, a caller passes.
MaxLimit   == 2

\* limit: int = 50, handed to the service as it came.
Limits == (0 - MaxLimit)..MaxLimit

\* The limits a caller of a live session passes: none, one, a negative one.
FewLimits == {0 - 1, 0, 1}

\* session.messages[-limit:] if limit else session.messages, as Python
\* slices: the start index -limit counts from the end when it is negative
\* and from the front when it is positive, and is clipped to the list.
GetMessages(msgs, limit) ==
    IF limit = 0 THEN msgs
    ELSE LET n     == Len(msgs)
             start == 0 - limit
             from  == IF start < 0
                      THEN (IF n + start < 0 THEN 0 ELSE n + start)
                      ELSE (IF start > n THEN n ELSE start)
         IN SubSeq(msgs, from + 1, n)

\* get_session_messages: the membership check, then the slice.
GetSessionMessages(s, limit) ==
    /\ Served
    /\ last' = IF Unknown(sessions, s)
               THEN [Ret("messages", s, "not_found", "") EXCEPT !.arg = limit]
               ELSE RetList("messages", s, "ok", limit, GetMessages(messages[s], limit))
    /\ UNCHANGED <<svcVars, files, inputFile, outputFile, ext>>

\* The histories send_message builds: user and agent records in turn, the
\* k-th agent record carrying messageId k; an odd length is a history whose
\* last send got no reply.
Histories ==
    { [i \in 1..n |->
          IF i % 2 = 1 THEN UserMessage("hi")
          ELSE AgentMessage(JsonLine("response", i \div 2, f[i \div 2]))] :
      n \in 0..MaxHistory, f \in [1..(MaxHistory \div 2) -> Replies] }

\* The service holding one session with history h: 'ready' after complete
\* rounds, 'error' when the last send timed out with its message still in
\* the input file.
InitMessages ==
    \E h \in Histories :
        LET k == Len(h) \div 2
            open == Len(h) % 2 = 1
        IN /\ nextId = 2
           /\ sessions = {1}
           /\ status = [s \in SessionIds |->
                 IF s = 1 THEN (IF open THEN "error" ELSE "ready") ELSE "none"]
           /\ messages = [s \in SessionIds |-> IF s = 1 THEN h ELSE <<>>]
           /\ lastResponseId = [s \in SessionIds |-> IF s = 1 THEN k ELSE 0]
           /\ files = {1}
           /\ inputFile = [s \in SessionIds |-> IF s = 1 /\ open THEN "hi" ELSE ""]
           /\ outputFile = [s \in SessionIds |->
                 IF s # 1 THEN <<>>
                 ELSE IF k = 0 THEN <<TextLine("SESSION_READY")>>
                 ELSE <<JsonLine("response", k, h[2 * k].content)>>]
           /\ ext = [s \in SessionIds |->
                 [phase |-> IF s = 1 THEN "loop" ELSE "none",
                  counter |-> IF s = 1 THEN k ELSE 0, cur |-> "", term |-> FALSE]]
           /\ createPc = [s \in SessionIds |-> IF s = 1 THEN "done" ELSE "none"]
           /\ sendPc = [s \in SessionIds |-> "idle"]
           /\ stopping = [s \in SessionIds |-> 0]
           /\ last = Quiet
           /\ calls = 0
           /\ review = NoReview
           /\ full = NoFull

\* ------------------------------------------------ what the client sees
\* The exception a finished call raised, "" when it returned: both checks
\* of send_message and the check of get_session_messages raise ValueError,
\* a failed wait raises what the wait raised.
Raised(r) ==
    IF r.out \in {"not_found", "not_ready"} THEN "ValueError"
    ELSE IF r.out = "error" THEN r.val
    ELSE ""

\* The HTTP routes of send_message and get_session_messages:
\* except ValueError -> 404, except Exception -> 500.
HttpStatus(r) ==
    IF Raised(r) = "" THEN 200
    ELSE IF Raised(r) = "ValueError" THEN 404
    ELSE 500

\* The "error" field of the MCP tools send_message_to_cline and
\* get_cline_session_messages: except ValueError -> "Session not found",
\* except Exception -> str(e).
McpError(r) ==
    IF Raised(r) = "" THEN ""
    ELSE IF Raised(r) = "ValueError" THEN "Session not found"
    ELSE Raised(r)

\* ------------------------------------------ the review (run_coderabbit_cli)
\* The text the CLI prints after the marker: a comment's first characters
\* (stem), followed or not by the ellipsis "...".
Stems == {"", "Fix typo", "Rename it!", "Use a constant", "Add a null check"}
StemLen(s) ==
    CASE s = "" -> 0
      [] s = "Fix typo" -> 8
      [] s = "Rename it!" -> 10
      [] s = "Use a constant" -> 14
      [] s = "Add a null check" -> 16
RawTexts ==
    { [stem |-> "Add a null check", dots |-> TRUE],
      [stem |-> "Use a constant",   dots |-> FALSE],
      [stem |-> "Rename it!",       dots |-> TRUE],
      [stem |-> "Fix typo",         dots |-> FALSE],
      [stem |-> "",                 dots |-> TRUE] }
NoText == [stem |-> "", dots |-> FALSE]

\* The lines of the CLI's output: the marker followed by a space and a text,
\* the marker with nothing after its colon, the summary line with a count
\* or with something that is no number, and any other line.
OutLine(k, x, c) == [kind |-> k, text |-> x, count |-> c]
OutLines ==
    { OutLine("extracted", x, 0) : x \in RawTexts }
    \cup { OutLine("extracted_bare", NoText, 0), OutLine("other", NoText, 0),
           OutLine("summary_bad", NoText, 0) }
    \cup { OutLine("summary", NoText, c) : c \in {0, 2} }

RECURSIVE SeqsUpTo(_, _)
SeqsUpTo(S, n) ==
    IF n = 0 THEN {<<>>}
    ELSE LET shorter == SeqsUpTo(S, n - 1)
         IN shorter \cup { Append(q, x) : q \in { r \in shorter : Len(r) = n - 1 }, x \in S }

\* What the review process may have printed when it exits.
Outputs == SeqsUpTo(OutLines, MaxOut)

\* stderr, by its length in characters.
ErrLens == {120, 700}

\* stderr_str[:500]
StderrLimit == 500
Truncated(n) == IF n > StderrLimit THEN StderrLimit ELSE n

\* 'Extracted:' in line
HasMarker(l) == l.kind \in {"extracted", "extracted_bare"}

\* line.split('Extracted: ')[1] raises IndexError when the marker is not
\* followed by the space.
SplitFails(l) == l.kind = "extracted_bare"

\* .replace('...', '').strip(): the ellipsis goes, the stem is left.
CleanText(x) == x.stem
CleanLen(x) == StemLen(x.stem)

\* Mutant: a text of exactly ten characters is kept.
LongEnough_Inclusive(n) == n >= 10

\* if comment_text and len(comment_text) > 10
LongEnough(n) == n > 10

Comment(x) ==
    [text |-> x, user |-> "CodeRabbit", range |-> "Unknown", filePath |-> "Unknown"]

\* The comment appended when no comment was parsed.
Placeholder ==
    [text |-> "CodeRabbit review completed successfully.", user |-> "CodeRabbit",
     range |-> "Overall", filePath |-> "Workspace"]

\* 'Review completed with' in line and 'comments' in line
IsSummary(l) == l.kind \in {"summary", "summary_bad"}

\* expected_count = int(count_part), which the code only logs; -1 when
\* int() raises ValueError.
ExpectedCount(l) == IF l.kind = "summary" THEN l.count ELSE 0 - 1

\* for line in lines: the comments appended up to line i.
RECURSIVE ParseLines(_, _)
ParseLines(lines, i) ==
    IF i = 0 THEN <<>>
    ELSE LET before == ParseLines(lines, i - 1)
             l == lines[i]
         IN IF HasMarker(l)
            THEN IF SplitFails(l) THEN before
                 ELSE IF CleanText(l.text) # "" /\ LongEnough(CleanLen(l.text))
                      THEN Append(before, Comment(CleanText(l.text)))
                      ELSE before
            ELSE before

\* Mutant: the parsed comments are cut to the count of the last summary line.
Parse_CutToCount(lines) ==
    LET found == ParseLines(lines, Len(lines))
        sums  == SelectSeq(lines, LAMBDA l : l.kind = "summary")
        kept  == IF sums = <<>> THEN found
                 ELSE SubSeq(found, 1, IF sums[Len(sums)].count < Len(found)
                                       THEN sums[Len(sums)].count ELSE Len(found))
    IN IF kept = <<>> THEN <<Placeholder>> ELSE kept

\* parse_coderabbit_output
Parse(lines) ==
    LET found == ParseLines(lines, Len(lines))
    IN IF found = <<>> THEN <<Placeholder>> ELSE found

\* create_subprocess_exec("npm", "run", "coderabbit"), then the coroutine
\* waits in wait_for(process.communicate(), timeout).
ReviewStart ==
    /\ review.pc = "none"
    /\ review' = [review EXCEPT !.pc = "waiting", !.proc = "running"]
    /\ UNCHANGED cline

\* The spawn raises (no npm, no project directory): except Exception.
ReviewSpawnFails ==
    /\ review.pc = "none"
    /\ review' = [review EXCEPT !.pc = "failed", !.status = 500,
                                !.detail = [kind |-> "internal", stderr |-> 0]]
    /\ UNCHANGED cline

\* The review process ends by itself, having printed out and err.
ProcExit(out, rc, err) ==
    /\ review.proc = "running"
    /\ review' = [review EXCEPT !.proc = "exited", !.out = out, !.rc = rc, !.err = err]
    /\ UNCHANGED cline

\* The review process dies of the SIGKILL it was sent.
ProcKilled ==
    /\ review.proc = "killed"
    /\ review' = [review EXCEPT !.proc = "exited", !.rc = 0 - 9]
    /\ UNCHANGED cline

\* communicate() has returned: a non-zero return code raises
\* HTTPException(500, "CodeRabbit CLI failed: " + stderr_str[:500]),
\* otherwise the output is parsed and returned.
ReviewCollect ==
    /\ review.pc = "waiting"
    /\ review.proc = "exited"
    /\ review' = IF review.rc # 0
                 THEN [review EXCEPT !.pc = "failed", !.status = 500,
                          !.detail = [kind |-> "cli_failed",
                                      stderr |-> Truncated(review.err)]]
                 ELSE [review EXCEPT !.pc = "returned", !.status = 200,
                          !.comments = Parse(review.out)]
    /\ UNCHANGED cline

\* Mutant: the timeout is reported at once, the process is left alone.
ReviewTimeout_NoKill ==
    /\ review.pc = "waiting"
    /\ review' = [review EXCEPT !.pc = "failed", !.status = 408,
                                !.detail = [kind |-> "timeout", stderr |-> 0]]
    /\ UNCHANGED cline

\* asyncio.TimeoutError: process.kill(), then await process.wait().  On a
\* process that has just exited kill() does nothing, or raises
\* ProcessLookupError, which the outer except Exception turns into
\* HTTPException(500, "Internal error running CodeRabbit: ...").
ReviewTimeout ==
    /\ review.pc = "waiting"
    /\ \/ /\ review.proc = "running"
          /\ review' = [review EXCEPT !.pc = "reaping", !.proc = "killed",
                                      !.signal = "KILL"]
       \/ /\ review.proc = "exited"
          /\ review' = [review EXCEPT !.pc = "reaping", !.signal = "KILL"]
       \/ /\ review.proc = "exited"
          /\ review' = [review EXCEPT !.pc = "failed", !.status = 500,
                            !.detail = [kind |-> "internal", stderr |-> 0]]
    /\ UNCHANGED cline

\* process.wait() has returned: HTTPException(408), passed on by
\* except HTTPException: raise.
ReviewReaped ==
    /\ review.pc = "reaping"
    /\ review.proc = "exited"
    /\ review' = [review EXCEPT !.pc = "failed", !.status = 408,
                                !.detail = [kind |-> "timeout", stderr |-> 0]]
    /\ UNCHANGED cline

\* ------------------------------------------ the full variant (ClineService)
\* Mutant: the class has a method of the name create_session calls.
StartRoutineDefined_Present == TRUE

\* create_session awaits self._start_cli_interactive_process(session); the
\* class defines _start_interactive_session and no attribute of the name
\* that is called.
StartRoutineDefined == FALSE

\* A call arrives at the ClineService instance, which shares nothing with
\* the SimpleClineService instance.
FullServed ==
    /\ calls < MaxCalls /\ calls' = calls + 1
    /\ UNCHANGED <<svcVars, files, inputFile, outputFile, ext, review>>

\* ClineService.create_session: the session object, the start routine, then
\* 'ready' and the insertion; the except clause sets 'error' and raises
\* again.  The attribute lookup of an undefined start routine raises
\* AttributeError inside the try block.
FullCreateSession ==
    /\ FullServed
    /\ full.nextId <= MaxSessions
    /\ LET s == full.nextId IN
        IF StartRoutineDefined
        THEN \/ /\ full' = [full EXCEPT !.nextId = @ + 1, !.status[s] = "ready",
                                         !.sessions = @ \cup {s}]
                /\ last' = Ret("create", s, "ok", "")
             \/ /\ full' = [full EXCEPT !.nextId = @ + 1, !.status[s] = "error"]
                /\ last' = Ret("create", s, "error", "RuntimeError")
        ELSE /\ full' = [full EXCEPT !.nextId = @ + 1, !.status[s] = "error"]
             /\ last' = Ret("create", s, "error", "AttributeError")

\* ClineService.send_message: the two checks, then the user record, the
\* exchange with the process, the agent record and 'ready', or the except
\* clause with 'error'.
FullSendMessage(s, m) ==
    /\ FullServed
    /\ IF s \notin full.sessions
       THEN last' = Ret("send", s, "not_found", "") /\ UNCHANGED full
       ELSE IF full.status[s] # "ready"
       THEN last' = Ret("send", s, "not_ready", "") /\ UNCHANGED full
       ELSE \/ \E r \in Replies :
                /\ full' = [full EXCEPT !.status[s] = "ready",
                       !.messages[s] = @ \o <<UserMessage(m),
                                               [type |-> "agent", content |-> r, mid |-> 0]>>]
                /\ last' = Ret("send", s, "ok", r)
            \/ /\ full' = [full EXCEPT !.status[s] = "error",
                       !.messages[s] = Append(@, UserMessage(m))]
               /\ last' = Ret("send", s, "error", "RuntimeError")

\* ClineService.stop_session: False for an id that is not registered;
\* otherwise the process is stopped, the status set and the entry deleted,
\* or the except clause returns False.
FullStopSession(s) ==
    /\ FullServed
    /\ IF s \notin full.sessions
       THEN last' = Ret("stop", s, "false", "") /\ UNCHANGED full
       ELSE \/ /\ full' = [full EXCEPT !.status[s] = "stopped", !.sessions = @ \ {s}]
               /\ last' = Ret("stop", s, "true", "")
            \/ /\ last' = Ret("stop", s, "false", "Exception")
               /\ UNCHANGED full

\* ClineService.get_session: self.sessions.get(session_id), None for an id
\* that is not registered.
FullGetSession(s) ==
    /\ FullServed
    /\ last' = Ret("get", s, IF s \in full.sessions THEN "found" ELSE "none", "")
    /\ UNCHANGED full

\* A set as a sequence in increasing order.
RECURSIVE Listed(_)
Listed(S) ==
    IF S = {} THEN <<>>
    ELSE LET x == CHOOSE y \in S : \A z \in S : y <= z
         IN <<x>> \o Listed(S \ {x})

\* ClineService.list_sessions: list(self.sessions.values()), in the order of
\* insertion.
FullListSessions ==
    /\ FullServed
    /\ last' = RetList("list", 0, "ok", 0, Listed(full.sessions))
    /\ UNCHANGED full

\* ClineService.get_session_messages: the membership check, then
\* session.messages[-limit:] if limit else session.messages.
FullGetSessionMessages(s, limit) ==
    /\ FullServed
    /\ last' = IF s \notin full.sessions
               THEN [Ret("messages", s, "not_found", "") EXCEPT !.arg = limit]
               ELSE RetList("messages", s, "ok", limit, GetMessages(full.messages[s], limit))
    /\ UNCHANGED full

\* ======================================================================
\* Properties
\* ======================================================================

\* Everything but the result of the last step and the call count.
world == <<nextId, sessions, status, messages, lastResponseId, files, inputFile,
           outputFile, ext, createPc, sendPc, stopping>>

\* This step is the arrival of a call op on session id s.
Called(op, s) == calls' = calls + 1 /\ last'.op = op /\ last'.sid = s

\* This step ends a call op on session id s (it returns or raises): a call
\* that ends at once, or a coroutine that leaves its suspension.
Ended(op, s) ==
    /\ last'.op = op /\ last'.sid = s /\ last'.out # "pending"
    /\ \/ calls' # calls
       \/ <<createPc, sendPc, stopping>>' # <<createPc, sendPc, stopping>>

Last(lines) == lines[Len(lines)]

\* C1: send_message on a registered session whose status is not 'ready' fails
\* with the not-ready error and has no effect: no file is written, no record
\* is appended, the status and everything else stay as they were.
C1_NotReadyNoEffect ==
    [][\A s \in SessionIds :
        (Called("send", s) /\ s \in sessions /\ status[s] # "ready")
            => (last'.out = "not_ready" /\ UNCHANGED world)]_vars

C1_Witness ==
    \E s \in sessions :
        /\ last = Ret("send", s, "not_ready", "")
        /\ status[s] = "error"

\* C2: at most one request of a session is in flight.  While a send_message
\* is waiting for its reply the session is 'processing', and every other
\* send_message on it is rejected and leaves the input file alone.
C2_OneInFlight ==
    /\ [](\A s \in SessionIds : sendPc[s] = "sleep" => status[s] = "processing")
    /\ [][\A s \in SessionIds :
            (sendPc[s] = "sleep" /\ Called("send", s))
                => /\ last'.out = "not_ready"
                   /\ inputFile'[s] = inputFile[s]
                   /\ sendPc'[s] = "sleep"
                   /\ messages'[s] = messages[s]]_vars

C2_Witness ==
    \E s \in sessions :
        /\ last = Ret("send", s, "not_ready", "")
        /\ sendPc[s] = "sleep"
        /\ status[s] = "processing"
        /\ inputFile[s] \in Texts

\* The messageIds of the agent records of a history, in order.
RECURSIVE AgentIds(_)
AgentIds(msgs) ==
    IF msgs = <<>> THEN <<>>
    ELSE IF Head(msgs).type = "agent" THEN <<Head(msgs).mid>> \o AgentIds(Tail(msgs))
    ELSE AgentIds(Tail(msgs))

StrictlyIncreasing(seq) ==
    \A i, j \in 1..Len(seq) : i < j => seq[i] < seq[j]

\* C3: within a session the messageIds of the responses consumed by
\* successive sends are strictly increasing; a send that returns consumed an
\* id greater than the last one consumed, and the stored last-consumed id
\* never decreases.
C3_SequenceIncreasing ==
    /\ [](\A s \in SessionIds :
            /\ StrictlyIncreasing(AgentIds(messages[s]))
            /\ \A i \in 1..Len(AgentIds(messages[s])) :
                    AgentIds(messages[s])[i] <= lastResponseId[s])
    /\ [][\A s \in SessionIds :
            /\ lastResponseId'[s] >= lastResponseId[s]
            /\ (Ended("send", s) /\ last'.out = "ok")
                => /\ lastResponseId'[s] > lastResponseId[s]
                   /\ Last(messages'[s]).mid = lastResponseId'[s]]_vars

\* A send is waiting although the newest line of the output file is a record:
\* the record is the one already consumed.
C3_Witness ==
    \E s \in sessions :
        /\ sendPc[s] = "sleep"
        /\ lastResponseId[s] >= 1
        /\ outputFile[s] # <<>>
        /\ Last(outputFile[s]).kind = "json"
        /\ Last(outputFile[s]).key = "response"
        /\ Last(outputFile[s]).mid = lastResponseId[s]
        /\ last = Quiet

\* The lines of an output file that are replies with a sequence number
\* greater than lastId.
NewerReplies(lines, lastId) ==
    {lines[i] : i \in {j \in 1..Len(lines) :
        lines[j].kind = "json" /\ lines[j].key = "response" /\ lines[j].mid > lastId}}

\* C4: round trip.  An accepted send appends one user record holding the
\* text written to the input file; when it returns on a correctly sequenced
\* reply, it has appended exactly one agent record after that user record,
\* whose content is the reply's response field, it returns that content and
\* the session is 'ready'.
C4_RoundTrip ==
    [][\A s \in SessionIds :
        /\ (Called("send", s) /\ last'.out \in {"pending", "ok"})
            => LET n == Len(messages[s]) IN
               /\ Len(messages'[s]) = n + (IF last'.out = "ok" THEN 2 ELSE 1)
               /\ SubSeq(messages'[s], 1, n) = messages[s]
               /\ messages'[s][n + 1] = UserMessage(inputFile'[s])
        /\ (Ended("send", s) /\ last'.out = "ok"
                /\ \E l \in NewerReplies(outputFile[s], lastResponseId[s]) :
                        l.mid = lastResponseId'[s])
            => LET n == Len(messages'[s]) IN
               /\ n >= 2
               /\ n = Len(messages[s]) + (IF calls' = calls THEN 1 ELSE 2)
               /\ messages'[s][n - 1].type = "user"
               /\ messages'[s][n].type = "agent"
               /\ \E l \in NewerReplies(outputFile[s], lastResponseId[s]) :
                     /\ l.mid = lastResponseId'[s]
                     /\ messages'[s][n].content = l.body
                     /\ last'.val = l.body
               /\ status'[s] = "ready"
               /\ sendPc'[s] = "idle"]_vars

C4_Witness ==
    \E s \in sessions, r \in Replies :
        /\ last = Ret("send", s, "ok", r)
        /\ messages[s] = <<UserMessage("hi"), [type |-> "agent", content |-> r, mid |-> 1]>>
        /\ status[s] = "ready"
        /\ inputFile[s] = ""

\* C5: a send_message that fails after it was accepted leaves the session
\* 'error'; it does not write the input file again, and from then on the
\* status of the session is changed by no step other than one of stop_session,
\* and no message text is written to its input file.
C5_FailedSendStaysError ==
    [][\A s \in SessionIds :
        /\ (Ended("send", s) /\ last'.out = "error")
            => (status'[s] = "error" /\ inputFile'[s] = inputFile[s]
                /\ messages'[s] = messages[s])
        /\ (status[s] = "error" /\ status'[s] # "error") => last'.op = "stop"
        /\ (status[s] = "error" /\ inputFile'[s] # inputFile[s])
            => inputFile'[s] \in {"", STOP_SESSION}]_vars

C5_Witness ==
    \E s \in sessions :
        /\ last = Ret("send", s, "error", "TimeoutError")
        /\ status[s] = "error"
        /\ Len(messages[s]) = 1

\* C6: a session is inserted into the registry only when create_session
\* succeeds: an id whose create_session raised is returned neither by
\* list_sessions nor by get_session, in any state, and every id in the
\* registry is one whose create_session returned.
C6_FailedCreateNeverListed ==
    /\ \A s \in SessionIds :
        createPc[s] = "failed" => (s \notin ListSessions /\ GetSession(s) = 0)
    /\ \A s \in ListSessions : createPc[s] = "done"

C6_Witness ==
    /\ createPc[1] = "failed"
    /\ status[1] = "error"
    /\ outputFile[1] = <<>>
    /\ ListSessions = {2}

\* C7: stop_session on an id in the registry always returns true and removes
\* the session.
C7_StopRemovesKnown ==
    [][\A s \in SessionIds :
        (s \in sessions /\ Ended("stop", s))
            => (last'.out = "true" /\ s \notin sessions')]_vars

\* C8: stop_session on an id that is not in the registry returns false and
\* changes nothing.
C8_StopUnknownNoEffect ==
    [][\A s \in SessionIds :
        (Called("stop", s) /\ s \notin sessions)
            => (last'.out = "false" /\ UNCHANGED world)]_vars

\* The id is one whose creation failed, so its files and process exist.
C8_Witness ==
    \E s \in SessionIds :
        /\ last = Ret("stop", s, "false", "")
        /\ s \notin sessions
        /\ s \in files
        /\ inputFile[s] # STOP_SESSION

\* C9: stop_session twice in sequence on the same id: the second call, made
\* once the first has returned, returns false at once and changes nothing.
C9_StopTwice ==
    [][\A s \in SessionIds :
        (last.op = "stop" /\ last.sid = s /\ last.out \in {"true", "false"}
            /\ Called("stop", s))
            => (last'.out = "false" /\ s \notin sessions /\ UNCHANGED world)]_vars

\* C10 as stated: no session held in the registry has status 'error' or
\* 'stopped'.
C10_NoTerminalInRegistry ==
    \A s \in sessions : status[s] \notin {"error", "stopped"}

\* C10 amended: no session held in the registry has status 'stopped'; a
\* session whose send failed keeps status 'error' and stays in the registry.
C10_NoStoppedInRegistry ==
    /\ \A s \in sessions : status[s] # "stopped"
    /\ \A s \in SessionIds : (createPc[s] = "done" /\ status[s] = "error") => s \in sessions

\* A session whose send failed is still listed when a later create_session
\* returns.
C10_Witness ==
    \E s \in ListSessions :
        /\ status[s] = "error"
        /\ GetSession(s) = s
        /\ last.op = "create" /\ last.out = "ok" /\ last.sid # s

\* C11: the not-found and the not-ready failure of send_message reach the
\* client as different error categories: a send rejected as not ready has
\* neither the exception class, nor the HTTP status, nor the MCP error of a
\* send to an id that is not registered.
C11_DistinctErrors ==
    \A s \in SessionIds :
        last = Ret("send", s, "not_ready", "")
            => LET nf == Ret("send", s, "not_found", "")
               IN /\ Raised(last) # Raised(nf)
                  /\ HttpStatus(last) # HttpStatus(nf)
                  /\ McpError(last) # McpError(nf)

\* C12: send_message and get_session_messages on an id that was never
\* created, whose creation failed, or on which stop_session has just returned
\* fail with the not-found error and change nothing.
C12_GoneIdNotFound ==
    [][\A s \in SessionIds :
        (/\ Called("send", s) \/ Called("messages", s)
         /\ \/ createPc[s] \in {"none", "failed"}
            \/ last.op = "stop" /\ last.sid = s /\ last.out \in {"true", "false"})
            => (last'.out = "not_found" /\ UNCHANGED world)]_vars

\* C13: get_session is a lookup whose not-found result tells an id that was
\* never known from the id of a session that existed and was stopped: once
\* stop_session has returned on a session that was created, the lookup of
\* its id finds no session, and its result is not the result of the lookup
\* of an id never allocated.
C13_LookupTellsStopped ==
    \A s, u \in SessionIds :
        (/\ createPc[s] = "done"
         /\ last.op = "stop" /\ last.sid = s /\ last.out \in {"true", "false"}
         /\ createPc[u] = "none")
            => /\ GetSession(s) \notin ListSessions
               /\ GetSession(s) # GetSession(u)

Min(a, b) == IF a < b THEN a ELSE b
Abs(a) == IF a < 0 THEN 0 - a ELSE a

\* C14: get_session_messages(id, limit) on a registered session holding n
\* records returns, for every limit > 0, the last min(limit, n) records in
\* their order, for limit 0 all n records, and for every limit other than 0
\* a list no longer than |limit|.
C14_LastLimitRecords ==
    \A s \in sessions :
        (last.op = "messages" /\ last.sid = s)
            => LET n == Len(messages[s])
                   l == last.arg
               IN /\ last.out = "ok"
                  /\ l > 0 => last.list = SubSeq(messages[s], n - Min(l, n) + 1, n)
                  /\ l = 0 => last.list = messages[s]
                  /\ l # 0 => Len(last.list) <= Abs(l)

SessionState(s) ==
    <<s \in sessions, status[s], messages[s], lastResponseId[s], s \in files,
      inputFile[s], outputFile[s], ext[s], createPc[s], sendPc[s], stopping[s]>>

\* C16: sessions are independent.  Two sessions never share a file path, and
\* a step that is an operation on session a, or that changes anything of
\* session a, leaves everything of every other session b as it was.
C16_SessionsIndependent ==
    /\ [](\A a, b \in SessionIds :
            a # b => {InputPath(a), OutputPath(a)} \cap {InputPath(b), OutputPath(b)} = {})
    /\ [][\A a, b \in SessionIds :
            (a # b /\ (last'.sid = a \/ SessionState(a)' # SessionState(a)))
                => SessionState(b)' = SessionState(b)]_vars

\* A send_message on one session has returned its reply while another
\* session sits ready with an empty history and nothing consumed.
C16_Witness ==
    \E a, b \in sessions :
        /\ a # b
        /\ last.op = "send" /\ last.sid = a /\ last.out = "ok"
        /\ lastResponseId[a] > 0 /\ Len(messages[a]) = 2
        /\ status[b] = "ready" /\ messages[b] = <<>> /\ lastResponseId[b] = 0

MarkerLines(out) == SelectSeq(out, HasMarker)

Kept(l) == l.kind = "extracted" /\ StemLen(l.text.stem) > 10

DropSummary(out) == SelectSeq(out, LAMBDA l : ~IsSummary(l))
WithCount(out, c) ==
    [i \in 1..Len(out) |->
        IF IsSummary(out[i]) THEN OutLine("summary", NoText, c) ELSE out[i]]

\* C19: the summary line neither filters nor adds.  The comments returned
\* for an output are those returned for the same output without its summary
\* lines and for the same output with any other count claimed; an output
\* with no marker line yields exactly the placeholder; the list returned is
\* never empty.
C19_SummaryIgnored ==
    review.pc = "returned"
        => /\ review.comments = Parse(DropSummary(review.out))
           /\ \A c \in 0..MaxOut : review.comments = Parse(WithCount(review.out, c))
           /\ MarkerLines(review.out) = <<>> => review.comments = <<Placeholder>>
           /\ Len(review.comments) >= 1

\* The output held a summary line claiming two comments and no marker line;
\* the placeholder alone was returned.
C19_Witness ==
    /\ review.pc = "returned"
    /\ \E i \in 1..Len(review.out) :
          review.out[i].kind = "summary" /\ review.out[i].count = 2
    /\ MarkerLines(review.out) = <<>>
    /\ review.comments = <<Placeholder>>

\* C20: when the review process exits with a non-zero code the call fails
\* with an error whose detail carries stderr cut to its first 500 characters,
\* and parsed comments are returned only for exit code 0; a timeout is
\* reported only after the process was sent SIGKILL and has been waited
\* for; no finished call leaves its process running.
C20_FailuresOfTheCli ==
    /\ review.pc = "returned" => (review.rc = 0 /\ review.status = 200)
    /\ review.pc # "returned" => review.comments = <<>>
    /\ (review.pc = "failed" /\ review.proc = "exited" /\ review.rc > 0)
          => \/ /\ review.status = 500
                /\ review.detail.kind = "cli_failed"
                /\ review.detail.stderr = Min(review.err, 500)
             \/ review.signal = "KILL" /\ review.status = 408
             \/ review.detail.kind = "internal" /\ review.status = 500
    /\ review.detail.kind = "cli_failed" => (review.rc # 0 /\ review.signal = "")
    /\ review.status = 408 => (review.signal = "KILL" /\ review.proc = "exited")
    /\ review.pc \in {"returned", "failed"} => review.proc \in {"none", "exited"}

\* The process exited with code 1 and 700 characters on stderr; the error
\* carries 500 of them.
C20_Witness ==
    /\ review.pc = "failed" /\ review.status = 500
    /\ review.rc = 1 /\ review.err > StderrLimit
    /\ review.detail = [kind |-> "cli_failed", stderr |-> StderrLimit]

\* The status changes of the lifecycle, each with the call that makes it.
Lifecycle(s) ==
    \/ status[s] = "none" /\ status'[s] \in {"initializing", "error"}
          /\ last'.op = "create"
    \/ status[s] = "initializing" /\ status'[s] \in {"ready", "error"}
          /\ last'.op = "create"
    \/ status[s] = "ready" /\ status'[s] = "processing" /\ last'.op = "send"
    \/ status[s] = "processing" /\ status'[s] \in {"ready", "error"}
          /\ last'.op = "send"
    \/ status'[s] = "stopped" /\ last'.op = "stop"

C22_NoSendDuringStop ==
    [][\A s \in SessionIds :
        (stopping[s] > 0 /\ Called("send", s))
            => /\ last'.out \in {"not_found", "not_ready"}
               /\ inputFile'[s] = inputFile[s]]_vars

\* C23: stop_session cancels the request in flight: when a stop_session
\* ends on a session whose send_message is polling, that send is polling no
\* more, and once the stop has returned no step appends to the history of
\* the session or changes its status.
C23_StopCancelsSend ==
    [][\A s \in SessionIds :
        /\ (sendPc[s] = "sleep" /\ Ended("stop", s)) => sendPc'[s] # "sleep"
        /\ (last.op = "stop" /\ last.sid = s /\ last.out \in {"true", "false"}
                /\ s \in sessions)
              => (messages'[s] = messages[s] /\ status'[s] = status[s])]_vars

\* The output file of session id s exists and its content holds a marker.
MarkerInFile(s) ==
    /\ s \in files
    /\ \E i \in 1..Len(outputFile[s]) : outputFile[s][i].body \in {"READY", "SESSION_READY"}

\* C24: create_session sets 'ready' and registers the session only in a
\* step that read the readiness marker in the output file, whatever else the
\* file holds; a file that exists, empty or not, without a marker never
\* ends the handshake with success.
C24_ReadyOnlyAfterMarker ==
    [][\A s \in SessionIds :
        /\ ( \/ status[s] = "initializing" /\ status'[s] = "ready"
             \/ s \notin sessions /\ s \in sessions'
             \/ createPc[s] # "done" /\ createPc'[s] = "done" )
              => /\ MarkerInFile(s)
                 /\ status'[s] = "ready" /\ s \in sessions'
                 /\ last' = Ret("create", s, "ok", "")
        /\ (createPc[s] = "waiting" /\ ~MarkerInFile(s))
              => (createPc'[s] = "waiting" \/ last' = Ret("create", s, "error", "TimeoutError"))]_vars

\* A handshake ended with success on a file that holds a marker next to a
\* line of other text.
C24_Witness ==
    \E s \in SessionIds :
        /\ last = Ret("create", s, "ok", "")
        /\ status[s] = "ready" /\ s \in sessions
        /\ Len(outputFile[s]) = 2
        /\ outputFile[s][1] = TextLine("READY")
        /\ outputFile[s][2] = TextLine("starting")

\* C25: in the handshake an exit of the external process before the marker
\* was seen ends create_session with a startup failure, an error other than
\* the TimeoutError of the deadline, and a session whose process has exited
\* is never registered.
C25_ExitedProcessFailsStartup ==
    [][\A s \in SessionIds :
        /\ (createPc[s] \in {"spawned", "waiting"} /\ createPc'[s] = "done")
              => ext[s].phase # "exited"
        /\ (createPc[s] \in {"spawned", "waiting"} /\ createPc'[s] = "failed"
                /\ ext[s].phase = "exited" /\ ~HasReadyMarker(outputFile[s]))
              => (last'.out = "error" /\ last'.val # "TimeoutError")]_vars

\* The newest line of the output file is an error payload.
ErrorIsNewest(s) ==
    /\ s \in files
    /\ outputFile[s] # <<>>
    /\ Last(outputFile[s]).kind = "json"
    /\ Last(outputFile[s]).key = "error"

\* C26: an error payload is not retried and not reported as success: while
\* the newest record of the output file has an error field, an iteration of
\* the poll does not go back to sleep: the send ends there.
C26_ErrorPayloadEndsSend ==
    \A s \in SessionIds :
        (sendPc[s] = "sleep" /\ ErrorIsNewest(s)) => ~ENABLED KeepsPolling(s)

\* C27: while a send_message waits for its reply an exit of the external
\* process is fatal at once: with the process gone and no reply to pick up,
\* an iteration of the poll does not go back to sleep.
C27_ExitEndsSend ==
    \A s \in SessionIds :
        (sendPc[s] = "sleep" /\ ext[s].phase = "exited" /\ FindResponse(s) = NoLine)
            => ~ENABLED KeepsPolling(s)

\* The positions of the output file of session id s that hold a reply or an
\* error payload with a messageId above the last one consumed.
NewRecords(s) ==
    IF s \notin files THEN {}
    ELSE { i \in 1..Len(outputFile[s]) :
             /\ outputFile[s][i].kind = "json"
             /\ outputFile[s][i].key \in {"response", "error"}
             /\ outputFile[s][i].mid > lastResponseId[s] }

Max(S) == CHOOSE x \in S : \A y \in S : y <= x

\* An iteration of the poll that reads the file returns the newest new
\* record to send_message, which appends it and goes back to 'ready'.
ReturnsNewest(s) ==
    /\ SendPoll(s)
    /\ sendPc'[s] = "idle" /\ status'[s] = "ready"
    /\ last'.op = "send" /\ last'.out = "ok"
    /\ messages'[s] = Append(messages[s], AgentMessage(outputFile[s][Max(NewRecords(s))]))
    /\ lastResponseId'[s] = outputFile[s][Max(NewRecords(s))].mid

\* An iteration of the poll, reading or failing to read, after which the
\* send waits as before.
WaitsOn(s) ==
    /\ SendPoll(s) \/ SendReadFails(s)
    /\ sendPc'[s] = "sleep" /\ status'[s] = status[s] /\ messages'[s] = messages[s]
    /\ last'.out # "error"

\* C28: while a send_message polls, a missing output file, a read that
\* fails and a line that does not parse all count as "no reply yet".  An
\* iteration that reads the file returns the newest new record wherever the
\* lines that do not parse stand, above it or below, and can do nothing
\* else; when the file is missing or holds no new record the iteration can
\* only sleep again; so can a read that fails.  None of them fails the send.
C28_NotYetAvailable ==
    \A s \in SessionIds : sendPc[s] = "sleep" =>
        /\ NewRecords(s) # {} => (ENABLED ReturnsNewest(s) /\ ~ENABLED (SendPoll(s) /\ ~ReturnsNewest(s)))
        /\ NewRecords(s) = {} => (ENABLED WaitsOn(s) /\ ~ENABLED (SendPoll(s) /\ ~WaitsOn(s)))
        /\ ~ENABLED (SendReadFails(s) /\ ~WaitsOn(s))

\* A send returned the reply that stood below a line that does not parse.
C28_Witness ==
    \E s \in SessionIds :
        /\ last = Ret("send", s, "ok", "r1")
        /\ outputFile[s] = <<JsonLine("response", 1, "r1"), BadLine>>
        /\ lastResponseId[s] = 1
        /\ status[s] = "ready"

\* This step is a send_message on session id s that passed the two checks.
Accepted(s) == Called("send", s) /\ last'.out \in {"pending", "ok"}

\* C29: an accepted send_message overwrites the input file.  After the step
\* of the call the file exists and holds exactly the text of the message,
\* the text of the user record appended by the same call, whatever the file
\* held before; a send that goes on to wait has status 'processing' by then,
\* and the write leaves the output file, read next, as it was.
C29_InputFileIsTheMessage ==
    [][\A s \in SessionIds :
        Accepted(s) =>
            /\ s \in files'
            /\ Len(messages'[s]) > Len(messages[s])
            /\ messages'[s][Len(messages[s]) + 1] = UserMessage(inputFile'[s])
            /\ last'.out = "pending" => (status'[s] = "processing" /\ inputFile'[s] = last'.val)
            /\ status[s] = "ready"
            /\ outputFile'[s] = outputFile[s]]_vars

\* A message was written over a stop sentinel left in the input file.
C29_Witness ==
    \E s \in SessionIds :
        /\ last.op = "send" /\ last.sid = s /\ last.out = "pending"
        /\ stopping[s] > 0
        /\ inputFile[s] = "hi"
        /\ status[s] = "processing"

\* C30: stop_session works in a fixed order.  At the call the sentinel is
\* written and the process is signalled, with the files and the registry
\* entry still there; when the call ends on a registered session both files
\* are deleted, the status is 'stopped', the session is removed and the
\* process is gone.
C30_StopOrder ==
    [][\A s \in sessions :
        /\ (Called("stop", s) /\ last'.out = "pending")
              => /\ s \in files => inputFile'[s] = STOP_SESSION
                 /\ Running(s) => ext'[s].term
                 /\ s \in sessions' /\ status'[s] = status[s]
                 /\ (s \in files') = (s \in files)
        /\ Ended("stop", s)
              => /\ s \notin files'
                 /\ status'[s] = "stopped"
                 /\ s \notin sessions'
                 /\ ~Running(s)']_vars

IsPrefix(a, b) == Len(a) <= Len(b) /\ SubSeq(b, 1, Len(a)) = a

\* C31: the history of a registered session only grows at its end: across
\* every step the history before is a prefix of the history after; a send
\* that fails and a get_session_messages leave it as it was, and the list
\* get_session_messages returns is cut from it without changing it.
C31_HistoryAppendOnly ==
    [][\A s \in sessions :
        /\ IsPrefix(messages[s], messages'[s])
        /\ (Ended("send", s) /\ last'.out = "error") => messages'[s] = messages[s]
        /\ Called("messages", s) => messages'[s] = messages[s]]_vars

\* A reply was appended to a history that already held a full round.
C31_Witness ==
    \E s \in sessions :
        /\ last.op = "send" /\ last.sid = s /\ last.out = "ok"
        /\ Len(messages[s]) = 4
        /\ messages[s][4].type = "agent"

\* C32: every session list_sessions or get_session returns has status
\* 'ready', 'processing' or 'error'; a session that is 'initializing' or
\* 'stopped' is in neither answer.
C32_RegistryStatuses ==
    \A s \in SessionIds :
        /\ (s \in ListSessions \/ GetSession(s) # 0)
              => status[s] \in {"ready", "processing", "error"}
        /\ status[s] \in {"none", "initializing", "stopped"}
              => (s \notin ListSessions /\ GetSession(s) = 0)

\* One session is listed while it waits for a reply and a second one, still
\* in its handshake, is not.
C32_Witness ==
    \E s \in ListSessions, u \in SessionIds \ ListSessions :
        /\ status[s] = "processing" /\ GetSession(s) = s
        /\ status[u] = "initializing" /\ GetSession(u) = 0

\* User and agent records in turn, a user record first.
Alternates(h) ==
    \A i \in 1..Len(h) : h[i].type = IF i % 2 = 1 THEN "user" ELSE "agent"

\* C33: the history of a registered session alternates user and agent
\* records; it has even length when the status is 'ready', and odd length,
\* ending with the user record of the unanswered message, when the status is
\* 'processing' or 'error'.
C33_HistoryShape ==
    \A s \in sessions :
        /\ Alternates(messages[s])
        /\ status[s] = "ready" => Len(messages[s]) % 2 = 0
        /\ status[s] \in {"processing", "error"}
              => /\ Len(messages[s]) % 2 = 1
                 /\ Last(messages[s]).type = "user"

\* A send failed after a full round: three records, the last one the
\* unanswered message.
C33_Witness ==
    \E s \in sessions :
        /\ status[s] = "error"
        /\ last = Ret("send", s, "error", "TimeoutError")
        /\ Len(messages[s]) = 3
        /\ messages[s][2].type = "agent"

\* C34: a create_session that failed leaves nothing behind: the process it
\* spawned is not running and its two files are removed, so that every
\* running external process belongs to a session in its handshake or in the
\* registry.
C34_NoOrphans ==
    \A s \in SessionIds :
        /\ createPc[s] = "failed" => (~Running(s) /\ s \notin files)
        /\ Running(s) => (createPc[s] \in {"spawned", "waiting"} \/ s \in sessions)

\* C35: a stop_session that returns false has left the session as it was.
\* A call that returns false in the step of the call changes neither the
\* registry entry, nor the status, nor the input file, nor the files, nor the
\* process; a call that returns false after its grace period has not
\* signalled the process.
C35_FalseStopChangesNothing ==
    [][\A s \in SessionIds :
        /\ (Called("stop", s) /\ last'.out = "false")
              => /\ (s \in sessions') = (s \in sessions)
                 /\ status'[s] = status[s]
                 /\ inputFile'[s] = inputFile[s]
                 /\ (s \in files') = (s \in files)
                 /\ ext'[s] = ext[s]
        /\ (Ended("stop", s) /\ ~Called("stop", s) /\ last'.out = "false")
              => ~ext'[s].term]_vars

\* C36: the sentinel cannot come in through send_message.  While a send
\* whose text is the sentinel value waits for its reply and no stop_session
\* has signalled the process, the external process does not leave its
\* message loop on that text.
C36_SentinelNotInjected ==
    [][\A s \in SessionIds :
        (/\ sendPc[s] = "sleep"
         /\ Last(messages[s]) = UserMessage(STOP_SESSION)
         /\ ~ext[s].term)
            => ~ExtStopSentinel(s)]_vars

\* C37: of two stop_session calls on a registered id that are in their
\* grace period together, the one that ends first returns true and removes
\* the session.
C37_OverlappingStops ==
    [][\A s \in sessions :
        (stopping[s] >= 2 /\ Ended("stop", s) /\ ~Called("stop", s))
            => (last'.out = "true" /\ s \notin sessions')]_vars

Next ==
    \/ CreateSession
    \/ \E s \in SessionIds :
        \/ \E m \in Texts : SendMessage(s, m)
        \/ StopSession(s)
        \/ \E limit \in FewLimits : GetSessionMessages(s, limit)
        \/ CreatePoll(s)
        \/ CreateReadFails(s)
        \/ CreateTimeout(s)
        \/ CreateProcessExited(s)
        \/ SendPoll(s)
        \/ SendReadFails(s)
        \/ SendTimeout(s)
        \/ StopAfterGrace(s)
        \/ ExtEchoReady(s)
        \/ ExtSessionReady(s)
        \/ ExtTakeMessage(s)
        \/ ExtStopSentinel(s)
        \/ \E r \in Replies, mode \in WriteModes : ExtReply(s, r, mode)
        \/ \E mode \in WriteModes : ExtError(s, mode)
        \/ ExtExit(s)

Spec == Init /\ [][Next]_vars

\* The loops run and their deadlines pass: time.time() - start_time reaches
\* max_wait after finitely many sleeps of 2 seconds.
\* The steps of the two polling loops, of the calls that start them and of
\* the external process, in runs that serve one call fewer.
NextPolling ==
    \/ calls + 1 < MaxCalls /\ CreateSession
    \/ \E s \in SessionIds :
        \/ calls + 1 < MaxCalls /\ \E m \in Texts : SendMessage(s, m)
        \/ CreatePoll(s)
        \/ CreateReadFails(s)
        \/ CreateTimeout(s)
        \/ CreateProcessExited(s)
        \/ SendPoll(s)
        \/ SendReadFails(s)
        \/ SendTimeout(s)
        \/ ExtEchoReady(s)
        \/ ExtSessionReady(s)
        \/ ExtTakeMessage(s)
        \/ ExtStopSentinel(s)
        \/ \E r \in Replies, mode \in WriteModes : ExtReply(s, r, mode)
        \/ \E mode \in WriteModes : ExtError(s, mode)
        \/ ExtExit(s)

FairSpec ==
    /\ Init /\ [][NextPolling]_vars
    /\ \A s \in SessionIds :
          /\ WF_vars(CreatePoll(s))
          /\ WF_vars(CreateTimeout(s))
          /\ WF_vars(SendTimeout(s))

\* One review request, from the spawn of the CLI to the answer.
NextReview ==
    \/ ReviewStart
    \/ ReviewSpawnFails
    \/ /\ review.proc = "running"
       /\ \E out \in Outputs, rc \in {0, 1}, err \in ErrLens : ProcExit(out, rc, err)
    \/ ProcKilled
    \/ ReviewCollect
    \/ ReviewTimeout
    \/ ReviewReaped

SpecReview == Init /\ [][NextReview]_vars

\* Lines the output file may hold when it is read: the two markers, a
\* line of other text, a line cut short, replies and the error payload.
SnapLines ==
    { TextLine(x) : x \in ReadyTexts \cup {"starting"} }
    \cup { BadLine, JsonLine("error", 0, "failed") }
    \cup { JsonLine("response", i, "r1") : i \in 1..MaxSeq }

Snapshots == SeqsUpTo(SnapLines, MaxLines)

\* The history of a session that waits for a reply after k rounds.
Waiting(k) ==
    [i \in 1..(2 * k + 1) |->
        IF i % 2 = 1 THEN UserMessage("hi")
        ELSE AgentMessage(JsonLine("response", i \div 2, "r1"))]

\* One session in one of its two loops, the output file missing or holding
\* any snapshot.
InitSnapshots ==
    \E snap \in Snapshots, present \in BOOLEAN, seen \in 0..(MaxSeq - 1),
       mode \in {"handshake", "polling"} :
        LET polling == mode = "polling" IN
        /\ present \/ snap = <<>>
        /\ polling \/ seen = 0
        /\ nextId = 2
        /\ sessions = IF polling THEN {1} ELSE {}
        /\ status = [s \in SessionIds |->
              IF s # 1 THEN "none" ELSE IF polling THEN "processing" ELSE "initializing"]
        /\ messages = [s \in SessionIds |-> IF s = 1 /\ polling THEN Waiting(seen) ELSE <<>>]
        /\ lastResponseId = [s \in SessionIds |-> IF s = 1 THEN seen ELSE 0]
        /\ files = IF present THEN {1} ELSE {}
        /\ inputFile = [s \in SessionIds |-> ""]
        /\ outputFile = [s \in SessionIds |-> IF s = 1 THEN snap ELSE <<>>]
        /\ ext = [s \in SessionIds |->
              IF s # 1 THEN [phase |-> "none", counter |-> 0, cur |-> "", term |-> FALSE]
              ELSE IF polling
                   THEN [phase |-> "busy", counter |-> seen + 1, cur |-> "hi", term |-> FALSE]
                   ELSE [phase |-> "boot", counter |-> 0, cur |-> "", term |-> FALSE]]
        /\ createPc = [s \in SessionIds |->
              IF s # 1 THEN "none" ELSE IF polling THEN "done" ELSE "waiting"]
        /\ sendPc = [s \in SessionIds |-> IF s = 1 /\ polling THEN "sleep" ELSE "idle"]
        /\ stopping = [s \in SessionIds |-> 0]
        /\ last = Quiet
        /\ calls = 0
        /\ review = NoReview
        /\ full = NoFull

\* get_session_messages applied to every history and every limit.
NextMessages ==
    \E s \in SessionIds, limit \in Limits : GetSessionMessages(s, limit)

SpecMessages == InitMessages /\ [][NextMessages]_vars

\* The calls on the ClineService instance.
NextFull ==
    \/ FullCreateSession
    \/ FullListSessions
    \/ \E s \in SessionIds :
        \/ \E m \in Texts : FullSendMessage(s, m)
        \/ FullStopSession(s)
        \/ FullGetSession(s)
        \/ \E limit \in Limits : FullGetSessionMessages(s, limit)

SpecFull == Init /\ [][NextFull]_vars

\* The two polling loops applied to every content of the output file, with
\* one session either in its handshake or waiting for the reply to "hi"
\* after `seen` completed rounds.
NextSnapshots ==
    \E s \in SessionIds :
        \/ CreatePoll(s)
        \/ CreateReadFails(s)
        \/ CreateTimeout(s)
        \/ SendPoll(s)
        \/ SendReadFails(s)
        \/ SendTimeout(s)

SpecSnapshots == InitSnapshots /\ [][NextSnapshots]_vars
====
